---- MODULE Spec2Model ----
(***************************************************************************)
(* Backward value iteration over the Bridge/Orchard toy MDP                *)
(* (godscore_ci/planning/value_iteration.py, godscore_ci/envs/             *)
(* bridge_orchard.py).                                                     *)
(*                                                                         *)
(* Numbers.  The program computes with Python floats.  The model computes  *)
(* with exact rationals:                                                   *)
(*   - a reward, and lam, is an integer number of fifths (1.0 is 5,        *)
(*     -0.2 is -1, 6.0 is 30, 3.0 is 15);                                  *)
(*   - gamma is a fraction [n, d];                                         *)
(*   - the value of a state with j = T - t steps to go is stored as its    *)
(*     numerator over 5 * d^j, so that                                     *)
(*        q = u + gamma * V[s_next]                                        *)
(*     becomes  q = u * d^j + n * V[s_next]  on numerators, which is exact;*)
(*   - a numerator is a multi-limb integer (Num), because 50^20 does not   *)
(*     fit a machine integer.                                              *)
(* Two values of one time layer, computed with one gamma, compare as their *)
(* numerators compare.                                                     *)
(*                                                                         *)
(* The module also holds the two CI gates, gv_gate.py (threshold and       *)
(* regression gate over a run log) and api/chi_gate.py (tier-aware CHI     *)
(* gate).  Their floats are exact numbers in units of 1e-7, or NaN.        *)
(***************************************************************************)
EXTENDS Integers, Sequences, FiniteSets, TLC

\* ---------------------------------------------------------------- bounds
MaxT == 2
MaxCalls == 3
MaxRuns == 4
MaxWindow == 2
MaxDrift == 2
MaxTier == 3
NumLimbs == 7
Base == 1000000

\* ------------------------------------------------- multi-limb arithmetic
\* A Num is a sequence of NumLimbs limbs, least significant first; limbs
\* below the top one are in 0..Base-1, the top limb carries the sign.
Limbs == 1..NumLimbs

RECURSIVE NormFrom(_, _, _)
NormFrom(raw, j, carry) ==
    IF j = NumLimbs
    THEN <<raw[j] + carry>>
    ELSE <<(raw[j] + carry) % Base>>
         \o NormFrom(raw, j + 1, (raw[j] + carry) \div Base)

Norm(raw) == NormFrom(raw, 1, 0)

FromInt(x) == Norm([j \in Limbs |-> IF j = 1 THEN x ELSE 0])

Zero == FromInt(0)

Add(x, y) == Norm([j \in Limbs |-> x[j] + y[j]])

MulSmall(x, m) == Norm([j \in Limbs |-> x[j] * m])

RECURSIVE MulPow(_, _, _)
MulPow(x, m, j) ==
    IF j <= 0 \/ x = Zero THEN x ELSE MulPow(MulSmall(x, m), m, j - 1)

\* x > y
Greater(x, y) ==
    \E j \in Limbs : /\ x[j] > y[j]
                     /\ \A i \in Limbs : i > j => x[i] = y[i]

\* ----------------------------------------------------------- environment
REPAIR == "REPAIR"
HARVEST == "HARVEST"
BURN == "BURN"
WAIT == "WAIT"
Action == {REPAIR, HARVEST, BURN, WAIT}

\* An action BridgeOrchardEnv does not define
FLY == "FLY"
AnyAction == Action \cup {FLY}

\* BridgeOrchardEnv.start_state
start_state == <<0, 0, 1>>

\* BridgeOrchardEnv.is_terminal
is_terminal(e, s) == s[1] >= e.T

\* BridgeOrchardEnv.actions: the same tuple at every state
actions(e, s) == <<REPAIR, HARVEST, BURN, WAIT>>

\* BridgeOrchardEnv.reward ends in "raise ValueError": reached by an unknown
\* action at a state that is not terminal
reward_raises(e, s, a) == ~is_terminal(e, s) /\ a \notin Action

\* reward with BURN paying only while the orchard is alive
rewardBurnGated(e, s, a) ==
    IF is_terminal(e, s) THEN 0
    ELSE CASE a = REPAIR  -> e.c_repair
           [] a = HARVEST -> IF s[2] = 1 /\ s[3] = 1 THEN e.r_harvest ELSE 0
           [] a = BURN    -> IF s[3] = 1 THEN e.r_burn ELSE 0
           [] a = WAIT    -> e.r_wait

\* BridgeOrchardEnv.reward, in fifths
reward(e, s, a) ==
    IF is_terminal(e, s) THEN 0
    ELSE CASE a = REPAIR  -> e.c_repair
           [] a = HARVEST -> IF s[2] = 1 /\ s[3] = 1 THEN e.r_harvest ELSE 0
           [] a = BURN    -> e.r_burn
           [] a = WAIT    -> e.r_wait

\* transition with BURN taking the bridge down with the orchard
transitionBurnAll(e, s, a) ==
    CASE a = REPAIR  -> <<s[1] + 1, 1, s[3]>>
      [] a = BURN    -> <<s[1] + 1, 0, 0>>
      [] a = HARVEST -> <<s[1] + 1, s[2], s[3]>>
      [] a = WAIT    -> <<s[1] + 1, s[2], s[3]>>

\* BridgeOrchardEnv.transition (the file ends inside its definition)
transition(e, s, a) ==
    CASE a = REPAIR  -> <<s[1] + 1, 1, s[3]>>
      [] a = BURN    -> <<s[1] + 1, s[2], 0>>
      [] a = HARVEST -> <<s[1] + 1, s[2], s[3]>>
      [] a = WAIT    -> <<s[1] + 1, s[2], s[3]>>

\* transition fails on an action that is not in actions(s)
transition_raises(e, s, a) == a \notin Action

\* delta_omega charging every BURN, of a dead orchard too
delta_omegaEveryBurn(e, s, a) == IF a = BURN THEN 1 ELSE 0

\* BridgeOrchardEnv.delta_omega (not in the file; pinned by its tests)
delta_omega(e, s, a) == IF a = BURN /\ s[3] = 1 THEN 1 ELSE 0

\* delta_omega fails on an action that is not in actions(s)
delta_omega_raises(e, s, a) == a \notin Action

\* An environment other than BridgeOrchardEnv handed to the solver, with
\* the same rewards and a transition that does not always advance t: BURN
\* of a live orchard takes no time
instant_burn_transition(e, s, a) ==
    IF a = BURN /\ s[3] = 1 THEN <<s[1], s[2], 0>> ELSE transition(e, s, a)

\* Another such environment: WAIT leaves the state as it is
idle_wait_transition(e, s, a) ==
    IF a = WAIT THEN s ELSE transition(e, s, a)

\* env.transition(s, a) as the solver calls it: the method of the object
\* it was given
env_transition(e, s, a) ==
    CASE e.dynamics = "instant_burn" -> instant_burn_transition(e, s, a)
      [] e.dynamics = "idle_wait"    -> idle_wait_transition(e, s, a)
      [] OTHER                       -> transition(e, s, a)

\* ----------------------------------------------------------------- state
VARIABLES
    env,          \* the BridgeOrchardEnv instance the solves are given
    pc,           \* pc[i]: where invocation i of backward_value_iteration is
    gamma,        \* gamma[i], lam[i]: the arguments of invocation i
    lam,
    order,        \* order[i]: the tuple env.actions(s) yields in invocation i
    V,            \* V[i], pi[i]: the tables of invocation i
    pi,
    cur,          \* cur[i]: the state s = (t, b, o) of the loops
    k,            \* k[i]: index of the action the inner loop is at
    best_value,   \* best_value[i], best_action[i]: the incumbent
    best_action,
    ep,           \* a caller stepping through the environment: where it is,
                  \* and what its last calls of reward, delta_omega and
                  \* transition gave
    run_log,      \* the JSONL run history gv_gate.py reads and appends to
    gv,           \* the last run of gv_gate.main: its arguments, what it
                  \* read and computed, and its exit code
    chi,          \* the last run of chi_gate.main: its inputs and exit code
    par           \* a solve whose host evaluates the four (b, o) states of
                  \* a time layer by parallel workers: its tables, its layer
                  \* and each worker's loop position and incumbent

vars == <<env, pc, gamma, lam, order, V, pi, cur, k, best_value, best_action,
          ep, run_log, gv, chi, par>>

\* What the solver and the environment's callers leave alone
gates == <<run_log, gv, chi>>

\* What the gates leave alone
solver == <<env, pc, gamma, lam, order, V, pi, cur, k, best_value,
            best_action, ep, par>>

CallIds == 1..MaxCalls

None == << >>
NoAction == "None"
EmptyTable == << >>

\* The (b, o) pairs in the order of the loops "for b in (0, 1): for o in (0, 1)"
BOSeq == << <<0, 0>>, <<0, 1>>, <<1, 0>>, <<1, 1>> >>

BOIndex(s) == 2 * s[2] + s[3] + 1

\* ------------------------------------------------------------ parameters
Gamma(n, d) == [n |-> n, d |-> d]

ValidGamma(g) == g.n > 0 /\ g.n <= g.d
ValidLam(l) == l >= 0

\* gamma values a solve may be given: 0.5, 1.0, 0.98, and the invalid 0.0,
\* -0.5 and 1.5
Gammas == {Gamma(1, 2), Gamma(1, 1), Gamma(49, 50),
           Gamma(0, 1), Gamma(-1, 2), Gamma(3, 2)}

\* lam values, in fifths: 0.0, 1.0, 3.0 and the invalid -1.0
Lams == {0, 5, 15, -5}

Horizons == (-1)..MaxT

\* BridgeOrchardEnv(T, r_harvest, c_repair, r_burn, r_wait), rewards in fifths
Env(T, rh, cr, rb, rw) ==
    [T |-> T, r_harvest |-> rh, c_repair |-> cr, r_burn |-> rb, r_wait |-> rw,
     dynamics |-> "bridge_orchard"]

EnvConfigs ==
    {Env(T, 5, cr, rb, 0) : T \in Horizons, cr \in {-1, 0}, rb \in {5, 30}}

\* The environment of the experiment and of the regression test
HeadlineT == 20
HeadlineEnv == Env(HeadlineT, 5, -1, 30, 0)
HeadlineGamma == Gamma(49, 50)
HeadlineLams == <<0, 15>>

\* ---------------------------------------------------------------- solver
\* States of the enumerable space of an environment
StateSpace(e) == {<<t, b, o>> : t \in 0..e.T, b \in {0, 1}, o \in {0, 1}}

\* "+" for "-": the penalty added to the reward
UtilityAddsPenalty(e, l, s, a) == reward(e, s, a) + l * delta_omega(e, s, a)

\* u = r - lam * delta_omega, in fifths (lines 42-44)
Utility(e, l, s, a) == reward(e, s, a) - l * delta_omega(e, s, a)

\* q = u + gamma * V[s_next] (lines 46-47), on numerators over 5 * d^(T-t);
\* exact when s_next is a state of the next time layer
QValue(e, g, l, Vt, s, a) ==
    Add(MulPow(FromInt(Utility(e, l, s, a)), g.d, e.T - s[1]),
        MulSmall(Vt[env_transition(e, s, a)], g.n))

\* The comparison dropped: only the first action examined is ever taken
ImprovesFirstOnly(q, best) == best = None

\* ">=" for ">": an equal later action displaces the incumbent
ImprovesOrEqual(q, best) == best = None \/ ~Greater(best, q)

\* "best_value is None or q > best_value" (line 49)
Improves(q, best) == best = None \/ Greater(q, best)

\* First state of the loops: t = T - 1, b = 0, o = 0; none when T <= 0
HasFirst(e) == e.T - 1 >= 0

\* The loop over t running forwards: the layer t = 0 comes first
FirstStateForward(e) == <<0, 0, 0>>

FirstState(e) == <<e.T - 1, 0, 0>>

\* range(env.T - 1, 0, -1): the loops stop before the layer t = 0
HasNextStopsEarly(s) == ~(BOIndex(s) = 4 /\ s[1] <= 1)

\* The state after s in the loops of lines 33-35
HasNext(s) == ~(BOIndex(s) = 4 /\ s[1] = 0)

\* The loop over t not moving on: after the last (b, o) of a layer the
\* first state of the same layer comes again
NextStateSameLayer(s) ==
    IF BOIndex(s) < 4
    THEN <<s[1], BOSeq[BOIndex(s) + 1][1], BOSeq[BOIndex(s) + 1][2]>>
    ELSE <<s[1], 0, 0>>

NextState(s) ==
    IF BOIndex(s) < 4
    THEN <<s[1], BOSeq[BOIndex(s) + 1][1], BOSeq[BOIndex(s) + 1][2]>>
    ELSE <<s[1] - 1, 0, 0>>

\* The incumbent initialised once, not per state: it is carried from one
\* state, and from one invocation, to the next
BeginStateCarry(i, s) ==
    /\ cur' = [cur EXCEPT ![i] = s]
    /\ k' = [k EXCEPT ![i] = 1]
    /\ best_value' =
          [best_value EXCEPT ![i] = IF i > 1 /\ pc[i] = "terminal"
                                    THEN best_value[i - 1] ELSE @]
    /\ best_action' =
          [best_action EXCEPT ![i] = IF i > 1 /\ pc[i] = "terminal"
                                     THEN best_action[i - 1] ELSE @]

\* s = (t, b, o); best_value = None; best_action = None (lines 36-39)
BeginState(i, s) ==
    /\ cur' = [cur EXCEPT ![i] = s]
    /\ k' = [k EXCEPT ![i] = 1]
    /\ best_value' = [best_value EXCEPT ![i] = None]
    /\ best_action' = [best_action EXCEPT ![i] = NoAction]

\* Entry of backward_value_iteration(env, gamma, lam): fresh tables
\* (lines 24-25)
Call(i, gs, ls, os) ==
    /\ pc[i] = "idle"
    /\ \A j \in CallIds : j < i => pc[j] = "returned"
    /\ \E g \in gs, l \in ls, ord \in os :
        /\ gamma' = [gamma EXCEPT ![i] = g]
        /\ lam' = [lam EXCEPT ![i] = l]
        /\ order' = [order EXCEPT ![i] = ord]
    /\ V' = [V EXCEPT ![i] = EmptyTable]
    /\ pi' = [pi EXCEPT ![i] = EmptyTable]
    /\ pc' = [pc EXCEPT ![i] = "terminal"]
    /\ UNCHANGED <<env, cur, k, best_value, best_action, ep, gates, par>>

\* The terminal values written as 1.0 instead of 0.0
WithTerminalOne(e, Vt) ==
    [s \in DOMAIN Vt \cup {<<e.T, b, o>> : b \in {0, 1}, o \in {0, 1}} |->
        IF s[1] = e.T THEN FromInt(5) ELSE Vt[s]]

\* The tables with the terminal values written (lines 28-30)
WithTerminal(e, Vt) ==
    [s \in DOMAIN Vt \cup {<<e.T, b, o>> : b \in {0, 1}, o \in {0, 1}} |->
        IF s[1] = e.T THEN Zero ELSE Vt[s]]

\* Terminal values (lines 28-30), then the loops are entered (lines 33-39)
TerminalValues(i) ==
    /\ pc[i] = "terminal"
    /\ V' = [V EXCEPT ![i] = WithTerminal(env, V[i])]
    /\ IF HasFirst(env)
       THEN /\ BeginState(i, FirstState(env))
            /\ pc' = [pc EXCEPT ![i] = "eval"]
       ELSE /\ pc' = [pc EXCEPT ![i] = "return"]
            /\ UNCHANGED <<cur, k, best_value, best_action>>
    /\ UNCHANGED <<env, gamma, lam, order, pi, ep, gates, par>>

\* env.reward(s, a), env.delta_omega(s, a) or env.transition(s, a) raises
\* (lines 42, 43, 46)
EnvRaises(e, s, a) ==
    \/ reward_raises(e, s, a)
    \/ delta_omega_raises(e, s, a)
    \/ transition_raises(e, s, a)

\* The inner loop with "except ValueError: continue" around its body: an
\* action the environment does not define is skipped
EvalActionSkipUnknown(i) ==
    /\ pc[i] = "eval"
    /\ k[i] <= Len(order[i])
    /\ LET a == order[i][k[i]]
       IN  /\ IF EnvRaises(env, cur[i], a)
              THEN UNCHANGED <<best_value, best_action>>
              ELSE LET q == QValue(env, gamma[i], lam[i], V[i], cur[i], a)
                   IN  IF Improves(q, best_value[i])
                       THEN /\ best_value' = [best_value EXCEPT ![i] = q]
                            /\ best_action' = [best_action EXCEPT ![i] = a]
                       ELSE UNCHANGED <<best_value, best_action>>
           /\ k' = [k EXCEPT ![i] = k[i] + 1]
           /\ pc' = [pc EXCEPT ![i] =
                        IF k[i] + 1 > Len(order[i]) THEN "store" ELSE "eval"]
    /\ UNCHANGED <<env, gamma, lam, order, V, pi, cur, ep, gates, par>>

\* The inner loop reading V[s_next] from the table of another invocation
\* whenever that table holds s_next, as with one table shared by all
\* invocations
EvalActionShared(i) ==
    /\ pc[i] = "eval"
    /\ k[i] <= Len(order[i])
    /\ LET a == order[i][k[i]]
           others == {j \in CallIds \ {i} :
                          env_transition(env, cur[i], a) \in DOMAIN V[j]}
           Vt == IF others # {} THEN V[CHOOSE j \in others : TRUE] ELSE V[i]
       IN  IF EnvRaises(env, cur[i], a)
           THEN /\ pc' = [pc EXCEPT ![i] = "ValueError"]
                /\ UNCHANGED <<k, best_value, best_action>>
           ELSE IF env_transition(env, cur[i], a) \notin DOMAIN Vt
           THEN /\ pc' = [pc EXCEPT ![i] = "KeyError"]
                /\ UNCHANGED <<k, best_value, best_action>>
           ELSE LET q == QValue(env, gamma[i], lam[i], Vt, cur[i], a)
                IN  /\ IF Improves(q, best_value[i])
                       THEN /\ best_value' = [best_value EXCEPT ![i] = q]
                            /\ best_action' = [best_action EXCEPT ![i] = a]
                       ELSE UNCHANGED <<best_value, best_action>>
                    /\ k' = [k EXCEPT ![i] = k[i] + 1]
                    /\ pc' = [pc EXCEPT ![i] =
                                 IF k[i] + 1 > Len(order[i]) THEN "store"
                                                             ELSE "eval"]
    /\ UNCHANGED <<env, gamma, lam, order, V, pi, cur, ep, gates, par>>

\* One iteration of "for a in env.actions(s)" (lines 41-51).  An exception
\* raised by the environment (ValueError), or by V[s_next] when s_next is
\* not a key of V (KeyError), leaves the function: nothing is returned.
EvalAction(i) ==
    /\ pc[i] = "eval"
    /\ k[i] <= Len(order[i])
    /\ LET a == order[i][k[i]]
       IN  IF EnvRaises(env, cur[i], a)
           THEN /\ pc' = [pc EXCEPT ![i] = "ValueError"]
                /\ UNCHANGED <<k, best_value, best_action>>
           ELSE IF env_transition(env, cur[i], a) \notin DOMAIN V[i]
           THEN /\ pc' = [pc EXCEPT ![i] = "KeyError"]
                /\ UNCHANGED <<k, best_value, best_action>>
           ELSE LET q == QValue(env, gamma[i], lam[i], V[i], cur[i], a)
                IN  /\ IF Improves(q, best_value[i])
                       THEN /\ best_value' = [best_value EXCEPT ![i] = q]
                            /\ best_action' = [best_action EXCEPT ![i] = a]
                       ELSE UNCHANGED <<best_value, best_action>>
                    /\ k' = [k EXCEPT ![i] = k[i] + 1]
                    /\ pc' = [pc EXCEPT ![i] =
                                 IF k[i] + 1 > Len(order[i]) THEN "store"
                                                             ELSE "eval"]
    /\ UNCHANGED <<env, gamma, lam, order, V, pi, cur, ep, gates, par>>

\* pi[s] given the last action the inner loop looked at, not the incumbent
StoreStateLastAction(i) ==
    /\ pc[i] = "store"
    /\ V' = [V EXCEPT ![i] = (cur[i] :> best_value[i]) @@ V[i]]
    /\ pi' = [pi EXCEPT ![i] = (cur[i] :> order[i][Len(order[i])]) @@ pi[i]]
    /\ IF HasNext(cur[i])
       THEN /\ BeginState(i, NextState(cur[i]))
            /\ pc' = [pc EXCEPT ![i] = "eval"]
       ELSE /\ pc' = [pc EXCEPT ![i] = "return"]
            /\ UNCHANGED <<cur, k, best_value, best_action>>
    /\ UNCHANGED <<env, gamma, lam, order, ep, gates, par>>

\* V[s] = best_value; pi[s] = best_action (lines 53-54), then the next state
StoreState(i) ==
    /\ pc[i] = "store"
    /\ V' = [V EXCEPT ![i] = (cur[i] :> best_value[i]) @@ V[i]]
    /\ pi' = [pi EXCEPT ![i] = (cur[i] :> best_action[i]) @@ pi[i]]
    /\ IF HasNext(cur[i])
       THEN /\ BeginState(i, NextState(cur[i]))
            /\ pc' = [pc EXCEPT ![i] = "eval"]
       ELSE /\ pc' = [pc EXCEPT ![i] = "return"]
            /\ UNCHANGED <<cur, k, best_value, best_action>>
    /\ UNCHANGED <<env, gamma, lam, order, ep, gates, par>>

\* return V, pi (line 56)
Return(i) ==
    /\ pc[i] = "return"
    /\ pc' = [pc EXCEPT ![i] = "returned"]
    /\ UNCHANGED <<env, gamma, lam, order, V, pi, cur, k, best_value,
                   best_action, ep, gates, par>>

Step(i) == TerminalValues(i) \/ EvalAction(i) \/ StoreState(i) \/ Return(i)

\* A worker that has not looked at an action yet (lines 36-39)
FreshWorker ==
    [k |-> 1, best_value |-> None, best_action |-> NoAction, done |-> FALSE]

Workers == [bo \in {0, 1} \X {0, 1} |-> FreshWorker]

\* No layer-parallel solve yet
NoPar ==
    [pc |-> "idle", gamma |-> Gamma(1, 1), lam |-> 0, t |-> 0,
     V |-> EmptyTable, pi |-> EmptyTable, w |-> Workers]

InitCalls ==
    /\ par = NoPar
    /\ pc = [i \in CallIds |-> "idle"]
    /\ gamma = [i \in CallIds |-> Gamma(1, 1)]
    /\ lam = [i \in CallIds |-> 0]
    /\ order = [i \in CallIds |-> << >>]
    /\ V = [i \in CallIds |-> EmptyTable]
    /\ pi = [i \in CallIds |-> EmptyTable]
    /\ cur = [i \in CallIds |-> <<0, 0, 0>>]
    /\ k = [i \in CallIds |-> 1]
    /\ best_value = [i \in CallIds |-> None]
    /\ best_action = [i \in CallIds |-> NoAction]

\* ------------------------------------------------------------ gv_gate.py
\* Floats of the gate.  A float is a record: a number, counted in units of
\* 1e-7 so that round(x, 6) has something to round, or NaN.  An argument
\* that was not given, and None, is Missing.
Float(v) == [kind |-> "num", v |-> v]
NaN == [kind |-> "nan", v |-> 0]
Missing == [kind |-> "none", v |-> 0]

\* x >= y on floats: false when either is NaN
GE(x, y) == x.kind = "num" /\ y.kind = "num" /\ x.v >= y.v

\* x < y on floats: false when either is NaN
LT(x, y) == x.kind = "num" /\ y.kind = "num" /\ x.v < y.v

\* The quotient num/den (den > 0) rounded to a whole number, halves to even
RoundQ(num, den) ==
    LET q == num \div den
        r == num % den
    IN  IF 2 * r < den THEN q
        ELSE IF 2 * r > den THEN q + 1
        ELSE IF q % 2 = 0 THEN q ELSE q + 1

\* round(x, 6) of a float in units of 1e-7
Round6(x) == IF x.kind = "num" THEN Float(10 * RoundQ(x.v, 10)) ELSE x

EXIT_OK == 0
EXIT_BAD_INPUT == 2
EXIT_THRESHOLD_FAIL == 4
EXIT_REGRESSION_FAIL == 5
DEFAULT_MODE == "warn"

\* (raw or "").strip().lower() on the mode strings of the model
StripLower(raw) ==
    CASE raw = " Fail " -> "fail"
      [] OTHER          -> raw

\* Every mode read as "fail" unless it is a warn alias
normalize_modeFailByDefault(raw) ==
    IF StripLower(raw) \in {"warn", "advisory", "free"} THEN "warn" ELSE "fail"

_normalize_mode(raw) ==
    LET m == StripLower(raw)
    IN  IF m \in {"warn", "advisory"} THEN "warn"
        ELSE IF m \in {"fail", "enforce", "enforcement"} THEN "fail"
        ELSE IF m = "free" THEN "warn"
        ELSE IF m = "pro" THEN "fail"
        ELSE DEFAULT_MODE

\* The threshold met only when the score is above it
threshold_checkStrict(score, threshold) ==
    GE(score, threshold) /\ score # threshold

threshold_check(score, threshold) == GE(score, threshold)

\* The scores _compute_baseline collects, walking the history from its last
\* record backwards: those of records with threshold_pass true and a score,
\* until it holds window of them
RECURSIVE CollectScores(_, _, _, _)
CollectScores(history, i, window, scores) ==
    IF i = 0 \/ Len(scores) >= window THEN scores
    ELSE IF history[i].threshold_pass /\ history[i].score.kind # "none"
         THEN CollectScores(history, i - 1, window,
                            Append(scores, history[i].score))
         ELSE CollectScores(history, i - 1, window, scores)

RECURSIVE SumScores(_)
SumScores(scores) ==
    IF scores = << >> THEN 0 ELSE Head(scores).v + SumScores(Tail(scores))

\* sum(scores) / len(scores), kept as the fraction sum/n; None when no
\* score was collected, NaN when one of them is NaN
MeanOf(scores) ==
    IF scores = << >> THEN [kind |-> "none", sum |-> 0, n |-> 1]
    ELSE IF \E j \in 1..Len(scores) : scores[j].kind = "nan"
    THEN [kind |-> "nan", sum |-> 0, n |-> 1]
    ELSE [kind |-> "num", sum |-> SumScores(scores), n |-> Len(scores)]

\* The baseline over every record, the runs that failed the threshold too
compute_baselineAll(history, window) ==
    MeanOf(CollectScores([i \in 1..Len(history) |->
                             [history[i] EXCEPT !.threshold_pass = TRUE]],
                         Len(history), window, << >>))

_compute_baseline(history, window) ==
    MeanOf(CollectScores(history, Len(history), window, << >>))

\* score >= baseline - max_regression (line 213), on the fraction
regression_check(score, baseline, max_regression) ==
    /\ score.kind = "num" /\ baseline.kind = "num"
    /\ max_regression.kind = "num"
    /\ score.v * baseline.n >= baseline.sum - max_regression.v * baseline.n

\* round(float(baseline), 6), round(float(score - baseline), 6)
RoundBaseline(baseline) ==
    IF baseline.kind = "num"
    THEN Float(10 * RoundQ(baseline.sum, 10 * baseline.n))
    ELSE [kind |-> baseline.kind, v |-> 0]

RoundDelta(score, baseline) ==
    IF baseline.kind = "none" THEN Missing
    ELSE IF baseline.kind = "nan" \/ score.kind = "nan" THEN NaN
    ELSE Float(10 * RoundQ(score.v * baseline.n - baseline.sum,
                           10 * baseline.n))

\* The record _finalize appends to the run log (lines 335-350); ts, sha,
\* repo and run_id, which nothing reads back, are left out
RunRecord(mode, run, exit_code) ==
    [mode |-> mode,
     score |-> Round6(run.score),
     threshold |-> Round6(run.threshold),
     threshold_pass |-> run.threshold_pass,
     baseline |-> RoundBaseline(run.baseline),
     max_regression |-> Round6(run.max_regression),
     regression_pass |-> run.regression_pass,
     regression_delta |-> IF run.regression_pass = "None" THEN Missing
                          ELSE RoundDelta(run.score, run.baseline),
     exit_code |-> exit_code]

\* No run of gv_gate.main yet, in a workflow that passes --threshold,
\* --max-regression, --mode and --history-window
NoRun(threshold, max_regression, raw_mode, window) ==
    [ran |-> FALSE, mode |-> raw_mode, score |-> Missing,
     threshold |-> threshold, history_window |-> window,
     max_regression |-> max_regression, history |-> << >>,
     baseline |-> MeanOf(<< >>), threshold_pass |-> TRUE,
     regression_pass |-> "None", exit_code |-> EXIT_OK]

\* _finalize, then return exit_code
Finalize(run, exit_code) ==
    /\ gv' = [run EXCEPT !.exit_code = exit_code]
    /\ run_log' = Append(run_log,
                         RunRecord(_normalize_mode(run.mode), run, exit_code))

\* max(1, int(args.history_window)) (line 249)
HistoryWindow(window) == IF window < 1 THEN 1 ELSE window

\* gv_gate.main (lines 217-309) with --score (or GV_SCORE) as given;
\* regression_pass is "None", "True" or "False"
main(score) ==
    LET mode == _normalize_mode(gv.mode)
        history_window == HistoryWindow(gv.history_window)
        baseline == _compute_baseline(run_log, history_window)
        t_ok == threshold_check(score, gv.threshold)
        ok == regression_check(score, baseline, gv.max_regression)
        run == [gv EXCEPT !.ran = TRUE, !.score = score,
                          !.history = run_log, !.baseline = baseline,
                          !.threshold_pass = t_ok,
                          !.regression_pass = "None"]
    IN  /\ IF score.kind = "none"
           THEN /\ gv' = [gv EXCEPT !.ran = TRUE,
                                    !.score = score,
                                    !.history = << >>,
                                    !.baseline = MeanOf(<< >>),
                                    !.threshold_pass = TRUE,
                                    !.regression_pass = "None",
                                    !.exit_code = EXIT_BAD_INPUT]
                /\ UNCHANGED run_log
           ELSE IF ~t_ok /\ mode = "fail"
           THEN Finalize(run, EXIT_THRESHOLD_FAIL)
           ELSE IF baseline.kind = "none"
           THEN Finalize(run, EXIT_OK)
           ELSE IF ~ok /\ mode # "warn"
           THEN Finalize([run EXCEPT !.regression_pass = "False"],
                         EXIT_REGRESSION_FAIL)
           ELSE Finalize([run EXCEPT !.regression_pass =
                                        IF ok THEN "True" ELSE "False"],
                         EXIT_OK)
        /\ UNCHANGED <<solver, chi>>

\* ---------------------------------------------------------- chi_gate.py
\* The "tier" of a policy object as the policy file gives it: an int, a
\* bool, a string, or no tier at all
TierInt(v) == [kind |-> "int", v |-> v]
TierBool == [kind |-> "bool", v |-> 1]
TierStr(v) == [kind |-> "str", v |-> v]
TierJunk == [kind |-> "junk", v |-> 0]
TierAbsent == [kind |-> "absent", v |-> 0]

\* policy_tier of a policy object found in the index (lines 98-109):
\* a bool is 0, an int is itself, int(t) else, 0 when that fails; a policy
\* without "tier" is 0
policy_tier(t) ==
    CASE t.kind = "bool" -> 0
      [] t.kind = "int"  -> t.v
      [] t.kind = "str"  -> t.v
      [] OTHER           -> 0

\* A drifted id the loop of lines 166-175 looks at: a non-empty string
IsPolicyId(pid) == pid # ""

\* The ids of the loop that are in the index with tier >= min_tier
Hits(drift_ids, pol_idx, min_tier) ==
    {j \in 1..Len(drift_ids) :
        /\ IsPolicyId(drift_ids[j])
        /\ drift_ids[j] \in DOMAIN pol_idx
        /\ policy_tier(pol_idx[drift_ids[j]]) >= min_tier}

\* The exit code of chi_gate.main (lines 148-189)
ChiExit(enforce, allow_unknown, min_tier, chi_status, drift_ids, pol_idx) ==
    IF ~enforce THEN 0
    ELSE IF chi_status = "unknown" /\ allow_unknown THEN 0
    ELSE IF chi_status # "drifting" THEN 0
    ELSE IF Hits(drift_ids, pol_idx, min_tier) # {} THEN 1
    ELSE 0

\* chi_gate.main about to run on an output file that load_json reads, under
\* the environment variables and the policy file given
ChiRun(enforce, allow_unknown, min_tier, chi_status, drift_ids, pol_idx) ==
    [ran |-> FALSE, enforce |-> enforce, allow_unknown |-> allow_unknown,
     min_tier |-> min_tier, chi_status |-> chi_status,
     drift_ids |-> drift_ids, pol_idx |-> pol_idx, exit_code |-> 0]

\* The defaults of lines 119-122 and an output file without metrics
NoChi == ChiRun(FALSE, TRUE, 2, "unknown", << >>, << >>)

\* chi_gate.main(argv) (lines 112-189)
chi_main ==
    /\ ~chi.ran
    /\ chi' = [chi EXCEPT !.ran = TRUE,
                          !.exit_code = ChiExit(chi.enforce,
                                                chi.allow_unknown,
                                                chi.min_tier, chi.chi_status,
                                                chi.drift_ids, chi.pol_idx)]
    /\ UNCHANGED <<solver, run_log, gv>>

\* No gate has run
NoGates ==
    /\ run_log = << >>
    /\ gv = NoRun(Float(8000000), Float(200000), DEFAULT_MODE, 5)
    /\ chi = NoChi

\* No call of the environment made by a caller yet
NoEpisode(s) ==
    [s |-> s, at |-> s, a |-> NoAction, r |-> 0, d |-> 0, nxt |-> s,
     raised |-> {}, burned |-> FALSE, omega |-> 0]

\* One solve of an environment, with any gamma and lam
Init == env \in EnvConfigs
    /\ InitCalls /\ ep = NoEpisode(start_state) /\ NoGates

Next ==
    \/ Call(1, Gammas, Lams, {actions(env, start_state)})
    \/ Step(1)

Spec == Init /\ [][Next]_vars

\* An invocation between its call and its return or its exception
Running(i) == pc[i] \in {"terminal", "eval", "store", "return"}

\* The same, with the solve, once called, running on: it is a sequential
\* function and nothing in it waits. This is weak fairness of Step(1),
\* WF_vars(Step(1)), written out: Step(1) is enabled exactly where
\* Running(1) holds.
SpecLive == Spec /\ ([]<>(~Running(1)) \/ []<><<Step(1)>>_vars)

\* The experiment (exp_irreversibility_vi.run) and the regression test
\* (test_gv_penalty_changes_start_action): the headline environment solved
\* with lam = 0.0, then with lam = 3.0
InitHeadline == env = HeadlineEnv
    /\ InitCalls /\ ep = NoEpisode(start_state) /\ NoGates

NextHeadline ==
    \E i \in 1..Len(HeadlineLams) :
        \/ Call(i, {HeadlineGamma}, {HeadlineLams[i]},
                {actions(env, start_state)})
        \/ Step(i)

SpecHeadline == InitHeadline /\ [][NextHeadline]_vars

\* The same solve twice, the second time over an environment whose
\* actions(s) yields the action set in another order
Orders ==
    {[j \in 1..4 |-> p[actions(HeadlineEnv, start_state)[j]]] :
        p \in Permutations(Action)}

OrderGammas == {Gamma(1, 2), Gamma(1, 1)}
OrderLams == {0, 5, 15}

NextOrder ==
    \/ Call(1, OrderGammas, OrderLams, {actions(env, start_state)})
    \/ Call(2, {gamma[1]}, {lam[1]}, Orders)
    \/ \E i \in 1..2 : Step(i)

SpecOrder == Init /\ [][NextOrder]_vars

\* A sequence of solves of one environment, each with its own gamma and lam
PurityGammas == {Gamma(1, 2), Gamma(1, 1)}
PurityLams == {0, 15}

NextPurity ==
    \E i \in CallIds :
        \/ Call(i, PurityGammas, PurityLams, {actions(env, start_state)})
        \/ Step(i)

SpecPurity == Init /\ [][NextPurity]_vars

\* A solve of an environment whose actions(s) yields, besides the four
\* actions, one that reward, transition and delta_omega do not define
UnknownOrders ==
    {<<REPAIR, HARVEST, BURN, WAIT>>,
     <<FLY, REPAIR, HARVEST, BURN, WAIT>>,
     <<REPAIR, HARVEST, FLY, BURN, WAIT>>,
     <<REPAIR, HARVEST, BURN, WAIT, FLY>>}

NextUnknown ==
    \/ Call(1, OrderGammas, OrderLams, UnknownOrders)
    \/ Step(1)

SpecUnknown == Init /\ [][NextUnknown]_vars

\* A solve of an environment whose transition does not always advance t
StallConfigs ==
    {[e EXCEPT !.dynamics = d] :
        e \in EnvConfigs, d \in {"instant_burn", "idle_wait"}}

InitStall == env \in StallConfigs
    /\ InitCalls /\ ep = NoEpisode(start_state) /\ NoGates

NextStall ==
    \/ Call(1, OrderGammas, OrderLams, {actions(env, start_state)})
    \/ Step(1)

SpecStall == InitStall /\ [][NextStall]_vars

\* Two solves of one environment with one gamma, each with its own lam
NextLam ==
    \/ Call(1, Gammas, Lams, {actions(env, start_state)})
    \/ Call(2, {gamma[1]}, Lams, {actions(env, start_state)})
    \/ \E i \in 1..2 : Step(i)

SpecLam == Init /\ [][NextLam]_vars

\* Two solves of one environment instance started by concurrent callers,
\* each with its own (gamma, lam) and each called before the other has
\* returned, their steps interleaved in any way; when
\* both have returned, a third solve runs alone with the (gamma, lam) of one
\* of them
ConcConfigs == {Env(T, 5, -1, rb, 0) : T \in 1..MaxT, rb \in {5, 30}}
ConcGammas == {Gamma(1, 2), Gamma(1, 1)}
ConcLams == {0, 15}

CallConc(i) ==
    /\ pc[i] = "idle"
    /\ \E g \in ConcGammas, l \in ConcLams :
        /\ \A j \in (1..2) \ {i} :
               /\ pc[j] # "returned"
               /\ pc[j] # "idle" => <<g, l>> # <<gamma[j], lam[j]>>
        /\ gamma' = [gamma EXCEPT ![i] = g]
        /\ lam' = [lam EXCEPT ![i] = l]
    /\ order' = [order EXCEPT ![i] = actions(env, start_state)]
    /\ V' = [V EXCEPT ![i] = EmptyTable]
    /\ pi' = [pi EXCEPT ![i] = EmptyTable]
    /\ pc' = [pc EXCEPT ![i] = "terminal"]
    /\ UNCHANGED <<env, cur, k, best_value, best_action, ep, gates, par>>

InitConc == env \in ConcConfigs
    /\ InitCalls /\ ep = NoEpisode(start_state) /\ NoGates

NextConc ==
    \/ \E i \in 1..2 : CallConc(i)
    \/ \E c \in 1..2 :
           Call(3, {gamma[c]}, {lam[c]}, {actions(env, start_state)})
    \/ \E i \in 1..3 : Step(i)

SpecConc == InitConc /\ [][NextConc]_vars

\* A solve whose host evaluates the four (b, o) states of a time layer by
\* four workers, one state each, their steps interleaved in any way, and
\* moves to the layer below when all four have stored their entry.  Every
\* order of evaluating the four states is one of the interleavings.  Each
\* worker runs the body of the loops (lines 36-54) on its own s,
\* best_value and best_action; V and pi are shared.
ParStates == {0, 1} \X {0, 1}

ParState(bo) == <<par.t, bo[1], bo[2]>>

\* Entry, terminal values (lines 24-30) and the first layer, t = T - 1
ParCall(g, l) ==
    /\ par.pc = "idle"
    /\ HasFirst(env)
    /\ par' = [pc |-> "layer", gamma |-> g, lam |-> l, t |-> env.T - 1,
               V |-> WithTerminal(env, EmptyTable), pi |-> EmptyTable,
               w |-> Workers]
    /\ UNCHANGED <<env, pc, gamma, lam, order, V, pi, cur, k, best_value,
                   best_action, ep, gates>>

\* The incumbent kept in one place for the whole layer, not per worker
ParEvalSharedBest(bo) ==
    LET me == par.w[bo]
        s == ParState(bo)
        a == actions(env, s)[me.k]
        q == QValue(env, par.gamma, par.lam, par.V, s, a)
        shared == par.w[<<0, 0>>]
    IN  /\ par.pc = "layer"
        /\ ~me.done
        /\ me.k <= Len(actions(env, s))
        /\ par' = [par EXCEPT !.w[bo] =
                      IF Improves(q, shared.best_value)
                      THEN [me EXCEPT !.best_value = q, !.best_action = a,
                                      !.k = me.k + 1]
                      ELSE [me EXCEPT !.k = me.k + 1]]
        /\ UNCHANGED <<env, pc, gamma, lam, order, V, pi, cur, k, best_value,
                       best_action, ep, gates>>

\* One iteration of "for a in env.actions(s)" (lines 41-51) by worker bo
ParEval(bo) ==
    LET me == par.w[bo]
        s == ParState(bo)
        a == actions(env, s)[me.k]
        q == QValue(env, par.gamma, par.lam, par.V, s, a)
    IN  /\ par.pc = "layer"
        /\ ~me.done
        /\ me.k <= Len(actions(env, s))
        /\ par' = [par EXCEPT !.w[bo] =
                      IF Improves(q, me.best_value)
                      THEN [me EXCEPT !.best_value = q, !.best_action = a,
                                      !.k = me.k + 1]
                      ELSE [me EXCEPT !.k = me.k + 1]]
        /\ UNCHANGED <<env, pc, gamma, lam, order, V, pi, cur, k, best_value,
                       best_action, ep, gates>>

\* V[s] = best_value; pi[s] = best_action (lines 53-54) by worker bo
ParStore(bo) ==
    LET me == par.w[bo]
        s == ParState(bo)
    IN  /\ par.pc = "layer"
        /\ ~me.done
        /\ me.k > Len(actions(env, s))
        /\ par' = [par EXCEPT !.V = (s :> me.best_value) @@ par.V,
                              !.pi = (s :> me.best_action) @@ par.pi,
                              !.w[bo].done = TRUE]
        /\ UNCHANGED <<env, pc, gamma, lam, order, V, pi, cur, k, best_value,
                       best_action, ep, gates>>

\* All four entries of the layer are stored: the layer below (line 33), or
\* return V, pi (line 56)
ParNextLayer ==
    /\ par.pc = "layer"
    /\ \A bo \in ParStates : par.w[bo].done
    /\ par' = IF par.t = 0
              THEN [par EXCEPT !.pc = "returned"]
              ELSE [par EXCEPT !.t = par.t - 1, !.w = Workers]
    /\ UNCHANGED <<env, pc, gamma, lam, order, V, pi, cur, k, best_value,
                   best_action, ep, gates>>

\* The sequential solve first, then the layer-parallel solve of the same
\* environment with the same gamma and lam
NextPar ==
    \/ Call(1, ConcGammas, ConcLams, {actions(env, start_state)})
    \/ Step(1)
    \/ pc[1] = "returned" /\ ParCall(gamma[1], lam[1])
    \/ \E bo \in ParStates : ParEval(bo) \/ ParStore(bo)
    \/ ParNextLayer

SpecPar == InitConc /\ [][NextPar]_vars

\* A sequence of runs of gv_gate.main sharing one run log, in a workflow
\* that passes one --threshold, --max-regression, --mode and
\* --history-window to every run
GvThresholds == {Float(8000000), Float(8500000), NaN}
GvMaxRegressions == {Float(200000), Float(1500000), NaN}
GvScores ==
    {Missing, NaN, Float(7000000), Float(8000000), Float(8000004),
     Float(9000000)}
GvModes ==
    {"warn", "advisory", "free", "bogus", "fail", "enforce", "pro", " Fail "}
GvWindows == 0..MaxWindow

InitGv ==
    /\ env = HeadlineEnv /\ InitCalls /\ ep = NoEpisode(start_state)
    /\ run_log = << >>
    /\ \E th \in GvThresholds, mr \in GvMaxRegressions,
          raw_mode \in GvModes, window \in GvWindows :
           gv = NoRun(th, mr, raw_mode, window)
    /\ chi = NoChi

NextGv ==
    /\ Len(run_log) < MaxRuns
    /\ \E score \in GvScores : main(score)

SpecGv == InitGv /\ [][NextGv]_vars

\* A run of chi_gate.main over an output file, a policy file and
\* environment variables of every shape the gate tells apart; "" stands for
\* the drifted ids the loop skips
ChiIds == {"p1", "p2", "ghost", ""}
ChiPolicyIds == {"p1", "p2"}
ChiTiers ==
    {TierInt(t) : t \in 0..MaxTier}
        \cup {TierBool, TierStr(MaxTier), TierJunk, TierAbsent}
ChiMinTiers == 0..MaxTier
ChiStatuses == {"drifting", "stable", "unknown"}
ChiDriftIds ==
    UNION {[1..n -> ChiIds] : n \in 0..MaxDrift}
ChiPolicyFiles ==
    UNION {[S -> ChiTiers] : S \in SUBSET ChiPolicyIds}

InitChi ==
    /\ env = HeadlineEnv /\ InitCalls /\ ep = NoEpisode(start_state)
    /\ run_log = << >>
    /\ gv = NoRun(Float(8000000), Float(200000), DEFAULT_MODE, 5)
    /\ \E enforce \in BOOLEAN, allow_unknown \in BOOLEAN,
          min_tier \in ChiMinTiers, chi_status \in ChiStatuses,
          drift_ids \in ChiDriftIds, pol_idx \in ChiPolicyFiles :
           chi = ChiRun(enforce, allow_unknown, min_tier, chi_status,
                        drift_ids, pol_idx)

NextChi == chi_main

SpecChi == InitChi /\ [][NextChi]_vars

\* A caller of the environment alone: from any state of the space it calls
\* reward, delta_omega and transition with an action, known or not, and
\* moves to the successor while the state is not terminal.  ep.burned
\* tells whether a step of the trajectory so far took BURN, ep.omega is
\* the sum of delta_omega over its steps
EnvCallConfigs ==
    {Env(T, rh, -1, rb, rw) :
        T \in 1..MaxT, rh \in {5, 10}, rb \in {5, 30}, rw \in {0, 2}}

EnvCall(a) ==
    LET s == ep.s
        raised == {f \in {"reward", "delta_omega", "transition"} :
                      \/ f = "reward" /\ reward_raises(env, s, a)
                      \/ f = "delta_omega" /\ delta_omega_raises(env, s, a)
                      \/ f = "transition" /\ transition_raises(env, s, a)}
        nxt == IF "transition" \in raised THEN s ELSE transition(env, s, a)
        moves == raised = {} /\ ~is_terminal(env, s)
    IN  /\ ep' = [s |-> IF moves THEN nxt ELSE s,
                  at |-> s,
                  a |-> a,
                  r |-> IF "reward" \in raised THEN 0 ELSE reward(env, s, a),
                  d |-> IF "delta_omega" \in raised THEN 0
                        ELSE delta_omega(env, s, a),
                  nxt |-> nxt,
                  raised |-> raised,
                  burned |-> ep.burned \/ (moves /\ a = BURN),
                  omega |-> IF moves THEN ep.omega + delta_omega(env, s, a)
                            ELSE ep.omega]
        /\ UNCHANGED <<env, pc, gamma, lam, order, V, pi, cur, k, best_value,
                       best_action, gates, par>>

InitEnv ==
    /\ env \in EnvCallConfigs
    /\ InitCalls
    /\ \E s \in StateSpace(env) : ep = NoEpisode(s)
    /\ NoGates

NextEnv == \E a \in AnyAction : EnvCall(a)

SpecEnv == InitEnv /\ [][NextEnv]_vars

\* ------------------------------------------------------------ properties
Returned(i) == pc[i] = "returned"

ValidParams(i) == ValidGamma(gamma[i]) /\ ValidLam(lam[i])

NonTerminal(e) == {s \in StateSpace(e) : ~is_terminal(e, s)}

\* The action set actions(s) yields
ActionSet(e, s) == {actions(e, s)[j] : j \in 1..Len(actions(e, s))}

\* The q-value of a at s against the tables of invocation i
Q(i, s, a) == QValue(env, gamma[i], lam[i], V[i], s, a)

\* a attains the maximal q-value at s in invocation i
Maximal(i, s, a) == \A a2 \in ActionSet(env, s) : ~Greater(Q(i, s, a2), Q(i, s, a))

\* The first action of the tuple ord that attains the maximum at s
FirstMaximal(i, s, ord) ==
    ord[CHOOSE j \in 1..Len(ord) :
            /\ Maximal(i, s, ord[j])
            /\ \A j2 \in 1..(j - 1) : ~Maximal(i, s, ord[j2])]

\* C1: in the returned tables, V(s) at every non-terminal state is the
\* maximum over the actions of reward - lam*delta_omega + gamma*V(successor),
\* and Policy(s) is an action whose q-value is that maximum.
C1_BellmanOptimality ==
    \A i \in CallIds : Returned(i) =>
        \A s \in NonTerminal(env) :
            /\ \A a \in ActionSet(env, s) : ~Greater(Q(i, s, a), V[i][s])
            /\ \E a \in ActionSet(env, s) : Q(i, s, a) = V[i][s]
            /\ pi[i][s] \in ActionSet(env, s)
            /\ Q(i, s, pi[i][s]) = V[i][s]

\* A solve over two steps whose start action is REPAIR: the maximum is
\* decided by the value of the successor, not by the immediate reward.
C1_Witness ==
    /\ Returned(1) /\ ValidParams(1)
    /\ env.T >= 2
    /\ pi[1][start_state] = REPAIR
    /\ V[1][start_state] # Zero

\* C2: in the headline environment the Policy at the start state under
\* lam = 3.0 is REPAIR and differs from the Policy there under lam = 0.0.
C2_HeadlineShift ==
    (Returned(1) /\ Returned(2)) =>
        /\ pi[2][start_state] = REPAIR
        /\ pi[1][start_state] # pi[2][start_state]

\* C3: in the headline environment the Policy at the start state under
\* lam = 0.0 is BURN.
C3_HeadlineBaseline ==
    \A i \in CallIds :
        (Returned(i) /\ lam[i] = 0) => pi[i][start_state] = BURN

C3_Witness ==
    /\ Returned(1)
    /\ env = HeadlineEnv /\ gamma[1] = HeadlineGamma /\ lam[1] = 0
    /\ start_state \in DOMAIN pi[1]

\* C4 as stated: for T >= 1 both returned tables have exactly the states
\* (t, b, o), t in 0..T, as keys.
C4_BothTablesFull ==
    \A i \in CallIds : (Returned(i) /\ env.T >= 1) =>
        /\ DOMAIN V[i] = StateSpace(env)
        /\ DOMAIN pi[i] = StateSpace(env)

\* C4 amended: for T >= 1 the returned Value table has exactly the
\* (T+1)*4 states as keys and the returned Policy table exactly the 4*T
\* non-terminal ones.
C4_TableKeys ==
    \A i \in CallIds : (Returned(i) /\ env.T >= 1) =>
        /\ DOMAIN V[i] = StateSpace(env)
        /\ DOMAIN pi[i] = NonTerminal(env)
        /\ Cardinality(DOMAIN V[i]) = (env.T + 1) * 2 * 2
        /\ Cardinality(DOMAIN pi[i]) = env.T * 2 * 2

C4_Witness == Returned(1) /\ env.T >= 2 /\ <<0, 1, 1>> \in DOMAIN pi[1]

\* C5: for T >= 1 the terminal states are exactly those with t = T, and
\* from the moment the terminal values are written, through the whole
\* backward recursion and in the returned table, each has V = 0.
C5_TerminalBase ==
    \A i \in CallIds :
        (env.T >= 1 /\ pc[i] \in {"eval", "store", "return", "returned"}) =>
            /\ \A s \in StateSpace(env) : is_terminal(env, s) <=> s[1] = env.T
            /\ \A s \in StateSpace(env) : is_terminal(env, s) =>
                    s \in DOMAIN V[i] /\ V[i][s] = Zero

C5_Witness ==
    /\ Returned(1) /\ env.T >= 1
    /\ V[1][start_state] # Zero
    /\ V[1][<<env.T, 0, 1>>] = Zero

\* The actions examined so far at the state the loops are at
Examined(i) == 1..(k[i] - 1)

\* C6: the incumbent of the inner loop is always the earliest examined
\* action, in the order (REPAIR, HARVEST, BURN, WAIT), among those with the
\* largest q-value examined so far; so in the returned Policy, Policy(s) is
\* the earliest action in that order that attains the maximum.
C6_FirstWins ==
    \A i \in CallIds :
        /\ (pc[i] \in {"eval", "store"} /\ Examined(i) # {}) =>
              \E j \in Examined(i) :
                  /\ best_action[i] = actions(env, cur[i])[j]
                  /\ best_value[i] = Q(i, cur[i], actions(env, cur[i])[j])
                  /\ \A j2 \in Examined(i) :
                        /\ ~Greater(Q(i, cur[i], actions(env, cur[i])[j2]),
                                    best_value[i])
                        /\ j2 < j =>
                             Greater(best_value[i],
                                     Q(i, cur[i], actions(env, cur[i])[j2]))
        /\ Returned(i) =>
              \A s \in NonTerminal(env) :
                  pi[i][s] = FirstMaximal(i, s, actions(env, s))

\* Two actions tied at the maximum, at a state of a returned table
C6_Witness ==
    /\ Returned(1) /\ ValidParams(1) /\ env.T >= 2
    /\ \E s \in NonTerminal(env) :
          \E a \in ActionSet(env, s) :
              /\ a # pi[1][s]
              /\ Q(1, s, a) = V[1][s]
              /\ pi[1][s] = HARVEST

\* Exactly one action attains the maximum at s, in invocation i
UniqueMaximal(i, s) ==
    Cardinality({a \in ActionSet(env, s) : Maximal(i, s, a)}) = 1

SameSolve(i, j) == gamma[i] = gamma[j] /\ lam[i] = lam[j]

\* C7 as stated: the same solve over another iteration order of actions(s)
\* returns the same Policy table, tied states included.
C7_PolicyPinned ==
    (Returned(1) /\ Returned(2) /\ SameSolve(1, 2)) => pi[1] = pi[2]

\* C7 amended: the same solve over another iteration order of actions(s)
\* returns the same Policy entry at every state where one action alone
\* attains the maximum; at a state where actions are tied, Policy(s) is the
\* tied action that comes first in the iteration order of that solve.
C7_PolicyPinnedUpToTies ==
    (Returned(1) /\ Returned(2) /\ SameSolve(1, 2)) =>
        \A s \in NonTerminal(env) :
            /\ UniqueMaximal(1, s) => pi[1][s] = pi[2][s]
            /\ pi[1][s] = FirstMaximal(1, s, order[1])
            /\ pi[2][s] = FirstMaximal(2, s, order[2])

C7_Witness ==
    /\ Returned(1) /\ Returned(2) /\ SameSolve(1, 2)
    /\ order[1] # order[2]
    /\ env.T >= 2
    /\ \E s \in NonTerminal(env) : UniqueMaximal(1, s) /\ pi[2][s] = order[2][4]
    /\ \E s \in NonTerminal(env) : ~UniqueMaximal(1, s) /\ pi[1][s] # pi[2][s]

\* C8: the same solve over another iteration order of actions(s) returns
\* the same Value table.
C8_ValueOrderIndependent ==
    (Returned(1) /\ Returned(2) /\ SameSolve(1, 2)) => V[1] = V[2]

C8_Witness ==
    /\ Returned(1) /\ Returned(2) /\ SameSolve(1, 2)
    /\ order[1] # order[2]
    /\ pi[1] # pi[2]
    /\ env.T >= 2
    /\ V[2][start_state] # Zero

\* C9: two solves of one environment with the same gamma and lam return the
\* same Value and Policy tables, whatever solves came before or between.
C9_Purity ==
    \A i, j \in CallIds :
        (Returned(i) /\ Returned(j) /\ SameSolve(i, j)) =>
            V[i] = V[j] /\ pi[i] = pi[j]

\* A solve, a solve with another lam, then the first solve again
C9_Witness ==
    /\ Returned(1) /\ Returned(2) /\ Returned(3)
    /\ SameSolve(1, 3) /\ lam[2] # lam[1]
    /\ env.T >= 2
    /\ V[3] # V[2]

\* C10: a solve given gamma <= 0, gamma > 1 or lam < 0 writes no Value or
\* Policy entry and returns no tables.
C10_ParameterValidation ==
    \A i \in CallIds :
        (pc[i] # "idle" /\ ~ValidParams(i)) =>
            /\ V[i] = EmptyTable
            /\ pi[i] = EmptyTable
            /\ ~Returned(i)

\* C11: an environment with T <= 0 is rejected before any table entry is
\* computed: a solve of it writes no entry and returns no tables.
C11_HorizonValidation ==
    \A i \in CallIds :
        (pc[i] # "idle" /\ env.T <= 0) =>
            /\ V[i] = EmptyTable
            /\ pi[i] = EmptyTable
            /\ ~Returned(i)

\* C12: called at any state, terminal or not, with an action that is not in
\* actions(s), each of reward, transition and delta_omega fails; none
\* returns a value.
C12_UnknownActionFails ==
    (ep.a # NoAction /\ ep.a \notin ActionSet(env, ep.at)) =>
        ep.raised = {"reward", "delta_omega", "transition"}

\* The tuple ord holds an action the environment does not define
HasUnknown(ord) == \E j \in 1..Len(ord) : ord[j] \notin Action

\* C13: when actions(s) yields an action without reward, transition and
\* delta_omega definition, the solve of an environment with T >= 1 never
\* passes over that action, ends with the error raised at it, and returns
\* no table.
C13_UnknownActionFatal ==
    \A i \in CallIds :
        /\ pc[i] \in {"eval", "store", "return", "returned"} =>
              \A j \in Examined(i) : order[i][j] \in Action
        /\ pc[i] = "ValueError" =>
              /\ order[i][k[i]] \notin Action
              /\ \A j \in Examined(i) : order[i][j] \in Action
        /\ (pc[i] # "idle" /\ env.T >= 1 /\ HasUnknown(order[i])) =>
              /\ pc[i] \in {"terminal", "eval", "ValueError"}
              /\ pi[i] = EmptyTable

\* The error raised at the third action of the tuple, with an incumbent
\* already found among the first two
C13_Witness ==
    /\ pc[1] = "ValueError"
    /\ env.T >= 1
    /\ order[1][3] = FLY /\ k[1] = 3
    /\ best_action[1] \in Action

\* C14: a solve never returns tables computed through a transition that
\* does not strictly increase t: no state it evaluated has an action whose
\* successor is at the same or an earlier time.
C14_NonAdvancingRejected ==
    \A i \in CallIds :
        Returned(i) =>
            \A s \in DOMAIN pi[i] :
                \A j \in 1..Len(order[i]) :
                    env_transition(env, s, order[i][j])[1] > s[1]

\* C15: delta_omega(s, BURN) is 1 exactly when o(s) = 1 and 0 exactly when
\* o(s) = 0, and delta_omega(s, a) is 0 for REPAIR, HARVEST and WAIT,
\* whatever t, b and the reward coefficients are.
C15_IrreversibilityGating ==
    ep.a \in Action =>
        /\ "delta_omega" \notin ep.raised
        /\ ep.d \in {0, 1}
        /\ ep.a = BURN => ((ep.d = 1 <=> ep.at[3] = 1) /\ (ep.d = 0 <=> ep.at[3] = 0))
        /\ ep.a \in {REPAIR, HARVEST, WAIT} => ep.d = 0

\* BURN of a live orchard, at a time other than 0 and with the bridge up
C15_Witness ==
    /\ ep.a = BURN /\ ep.d = 1
    /\ ep.at[1] > 0 /\ ep.at[2] = 1 /\ ep.at[3] = 1

\* C16: at every non-terminal state (t, b, o), transition returns a state
\* at time t+1; REPAIR gives b = 1 and keeps o, BURN gives o = 0 and keeps
\* b, HARVEST and WAIT keep b and o.
C16_TransitionContract ==
    (ep.a \in Action /\ ~is_terminal(env, ep.at)) =>
        /\ "transition" \notin ep.raised
        /\ ep.nxt[1] = ep.at[1] + 1
        /\ ep.a = REPAIR => ep.nxt[2] = 1 /\ ep.nxt[3] = ep.at[3]
        /\ ep.a = BURN => ep.nxt[3] = 0 /\ ep.nxt[2] = ep.at[2]
        /\ ep.a \in {HARVEST, WAIT} =>
              ep.nxt[2] = ep.at[2] /\ ep.nxt[3] = ep.at[3]
        /\ ep.s = ep.nxt

\* BURN with the bridge up: the orchard goes, the bridge stays
C16_Witness ==
    /\ ep.a = BURN /\ ~is_terminal(env, ep.at)
    /\ ep.at[2] = 1 /\ ep.at[3] = 1
    /\ ep.nxt = <<ep.at[1] + 1, 1, 0>>

\* C17: reward(s, a) is 0 at every terminal state; at a non-terminal state
\* it is c_repair for REPAIR, r_harvest for HARVEST when b = 1 and o = 1 and
\* 0 otherwise, r_burn for BURN whatever b and o are, r_wait for WAIT.
C17_RewardContract ==
    ep.a \in Action =>
        /\ "reward" \notin ep.raised
        /\ is_terminal(env, ep.at) => ep.r = 0
        /\ ~is_terminal(env, ep.at) =>
              /\ ep.a = REPAIR => ep.r = env.c_repair
              /\ ep.a = HARVEST =>
                    ep.r = IF ep.at[2] = 1 /\ ep.at[3] = 1
                           THEN env.r_harvest ELSE 0
              /\ ep.a = BURN => ep.r = env.r_burn
              /\ ep.a = WAIT => ep.r = env.r_wait

\* BURN of a dead orchard still pays r_burn
C17_Witness ==
    /\ ep.a = BURN /\ ~is_terminal(env, ep.at)
    /\ ep.at[3] = 0
    /\ ep.r = env.r_burn /\ ep.r > 0

\* C18: of two solves of one environment with one gamma and lam1 <= lam2,
\* at every state s and action a with delta_omega(s, a) > 0 the utility
\* reward - lam*delta_omega, and the q-value of a at s against the solved
\* values, are no larger under lam2 than under lam1.
C18_MonotonicPenalty ==
    \A i, j \in 1..2 :
        (Returned(i) /\ Returned(j) /\ gamma[i] = gamma[j] /\ lam[i] <= lam[j]) =>
            \A s \in NonTerminal(env) :
                \A a \in ActionSet(env, s) :
                    delta_omega(env, s, a) > 0 =>
                        /\ Utility(env, lam[j], s, a) <= Utility(env, lam[i], s, a)
                        /\ ~Greater(Q(j, s, a), Q(i, s, a))

\* Two solves with lam 0.0 and 3.0 whose q-values of BURN at the start state
\* differ
C18_Witness ==
    /\ Returned(1) /\ Returned(2)
    /\ ValidParams(1) /\ ValidParams(2)
    /\ lam[1] < lam[2]
    /\ env.T >= 2
    /\ delta_omega(env, start_state, BURN) > 0
    /\ Greater(Q(1, start_state, BURN), Q(2, start_state, BURN))

\* C19: a solve of an environment with T >= 1 terminates, and it evaluates
\* each of the 4*T non-terminal states exactly once: the state the loops
\* are at has no Policy entry yet, every write of the Policy table adds a
\* new key, and the returned Policy table has the 4*T non-terminal states
\* as keys.
C19_Termination ==
    /\ [](\A i \in CallIds :
            /\ pc[i] \in {"eval", "store"} =>
                  cur[i] \in NonTerminal(env) \ DOMAIN pi[i]
            /\ (Returned(i) /\ env.T >= 1) =>
                  /\ DOMAIN pi[i] = NonTerminal(env)
                  /\ Cardinality(DOMAIN pi[i]) = 4 * env.T)
    /\ [][\A i \in CallIds :
            (pi'[i] # pi[i] /\ pi'[i] # EmptyTable) =>
                /\ cur[i] \notin DOMAIN pi[i]
                /\ DOMAIN pi'[i] = DOMAIN pi[i] \cup {cur[i]}]_vars
    /\ ((pc[1] = "terminal" /\ env.T >= 1) ~> Returned(1))

C19_Witness ==
    /\ Returned(1) /\ env.T >= 2
    /\ Cardinality(DOMAIN pi[1]) = 4 * env.T

\* C20: two solves of one environment instance with different (gamma, lam),
\* their steps interleaved in any way, each return the tables the same solve
\* returns when it runs alone; a step that is not an invocation's own leaves
\* that invocation's Value and Policy tables as they are, and no step
\* changes the environment configuration.
C20_ConcurrentIndependent ==
    /\ [](\A c \in 1..2 :
            (Returned(3) /\ Returned(c) /\ SameSolve(3, c)) =>
                (V[c] = V[3] /\ pi[c] = pi[3]))
    /\ [][/\ env' = env
          /\ \A i \in 1..2 :
                (pc'[i] = pc[i] /\ k'[i] = k[i]) =>
                    (V'[i] = V[i] /\ pi'[i] = pi[i])]_vars

\* Both concurrent solves have returned, each with a policy of its own, and
\* the solve run alone has returned too
C20_Witness ==
    /\ Returned(1) /\ Returned(2) /\ Returned(3)
    /\ <<gamma[1], lam[1]>> # <<gamma[2], lam[2]>>
    /\ pi[1] # pi[2]
    /\ SameSolve(3, 2)
    /\ env.T >= 2

\* The mode a run of gv_gate.main was given is a warn mode: warn, its
\* aliases, and every string that is not a fail mode
WarnMode(raw) ==
    StripLower(raw) \notin {"fail", "enforce", "enforcement", "pro"}

\* C21: a run of gv_gate.main in warn mode (warn, advisory, the legacy free,
\* or any unrecognised mode string) that was given a score returns EXIT_OK,
\* whatever the threshold, the run history and the regression check say.
C21_AdvisoryNeverFails ==
    (gv.ran /\ gv.score.kind # "none" /\ WarnMode(gv.mode)) =>
        gv.exit_code = EXIT_OK

\* An unrecognised mode, a score below the threshold and a failed
\* regression check
C21_Witness ==
    /\ gv.ran /\ gv.mode = "bogus"
    /\ LT(gv.score, gv.threshold)
    /\ gv.regression_pass = "False"
    /\ gv.exit_code = EXIT_OK

FailMode(raw) == ~WarnMode(raw)

\* score < baseline - max_regression on floats, false when one is NaN
BelowBaseline(score, baseline, max_regression) ==
    /\ score.kind = "num" /\ baseline.kind = "num"
    /\ max_regression.kind = "num"
    /\ score.v * baseline.n < baseline.sum - max_regression.v * baseline.n

\* A run without a score returns EXIT_BAD_INPUT and leaves the run log as
\* it is
NoScoreRun ==
    /\ [](gv.ran /\ gv.score.kind = "none" => gv.exit_code = EXIT_BAD_INPUT)
    /\ [][gv'.score.kind = "none" => run_log' = run_log]_vars

ClaimedTier(pid, pol_idx) ==
    IF pid \in DOMAIN pol_idx THEN policy_tier(pol_idx[pid]) ELSE 0

\* C23: chi_gate.main returns 1 exactly when enforcement is enabled,
\* chi_status is "drifting" and at least one drifted policy has tier >=
\* GODSCORE_CHI_MIN_TIER, a drifted policy id absent from the policy file
\* counting as tier 0; in every other case it returns 0.
C23_ChiGateDecision ==
    chi.ran =>
        /\ chi.exit_code \in {0, 1}
        /\ chi.exit_code = 1 <=>
              /\ chi.enforce
              /\ chi.chi_status = "drifting"
              /\ \E j \in 1..Len(chi.drift_ids) :
                    /\ IsPolicyId(chi.drift_ids[j])
                    /\ ClaimedTier(chi.drift_ids[j], chi.pol_idx)
                           >= chi.min_tier

\* The state of the loops of invocation i is being evaluated
Evaluating(i) == pc[i] \in {"eval", "store"}

\* C24: during a solve the states are evaluated layer by layer in decreasing
\* t, layer T-1 first and layer 0 last; every lookup V[transition(s, a)]
\* made for a state of layer t reads an entry of layer t+1 that is written
\* already, and no entry of V, once written, is written again.
C24_BackwardOrdering ==
    /\ [](\A i \in CallIds :
            Evaluating(i) =>
                \A a \in ActionSet(env, cur[i]) :
                    /\ env_transition(env, cur[i], a)[1] = cur[i][1] + 1
                    /\ env_transition(env, cur[i], a) \in DOMAIN V[i])
    /\ [][\A i \in CallIds :
            /\ (Evaluating(i) /\ Evaluating(i)') => cur'[i][1] <= cur[i][1]
            /\ (pc[i] = "terminal" /\ Evaluating(i)') =>
                   cur'[i][1] = env.T - 1
            /\ (Evaluating(i) /\ pc'[i] = "return") => cur[i][1] = 0
            /\ pc[i] # "idle" =>
                   \A s \in DOMAIN V[i] :
                       s \in DOMAIN V'[i] /\ V'[i][s] = V[i][s]]_vars

\* The last state of layer 0 is stored: both layers of a two-layer solve
\* have been evaluated
C24_Witness ==
    /\ pc[1] = "return" /\ env.T = MaxT
    /\ cur[1] = <<0, 1, 1>>
    /\ Cardinality(DOMAIN V[1]) = 4 * (env.T + 1)

\* C25: the four (b, o) states of a time layer evaluated in any order, or
\* interleaved by parallel workers, give the Value and Policy tables of the
\* sequential order: every entry a worker stores is the entry the
\* sequential solve holds, the returned tables are equal, and a worker's
\* step writes no entry but that of its own state.
C25_LayerOrderIndependent ==
    /\ []((par.pc # "idle") =>
            /\ \A s \in DOMAIN par.V : par.V[s] = V[1][s]
            /\ \A s \in DOMAIN par.pi : par.pi[s] = pi[1][s]
            /\ par.pc = "returned" => (par.V = V[1] /\ par.pi = pi[1]))
    /\ [][(par.pc = "layer" /\ par'.V # par.V) =>
             \E bo \in ParStates :
                 /\ ~par.w[bo].done /\ par'.w[bo].done
                 /\ DOMAIN par'.V = DOMAIN par.V \cup {ParState(bo)}
                 /\ DOMAIN par'.pi = DOMAIN par.pi \cup {ParState(bo)}
                 /\ \A s \in DOMAIN par.V : par'.V[s] = par.V[s]
                 /\ \A s \in DOMAIN par.pi : par'.pi[s] = par.pi[s]]_vars

\* The layer-parallel solve of a two-layer environment has returned, and
\* its policy is not the same action everywhere
C25_Witness ==
    /\ par.pc = "returned" /\ env.T >= 2
    /\ par.pi = pi[1]
    /\ par.pi[<<0, 0, 1>>] # par.pi[<<0, 0, 0>>]

\* The records of a history whose threshold_pass is true, and the at most
\* window most recent of them
Passing(history) == {i \in 1..Len(history) : history[i].threshold_pass}

Recent(history, window) ==
    {i \in Passing(history) :
        Cardinality({j \in Passing(history) : j > i}) < window}

RECURSIVE ScoreSum(_, _)
ScoreSum(history, idx) ==
    IF idx = {} THEN 0
    ELSE LET i == CHOOSE j \in idx : TRUE
         IN  history[i].score.v + ScoreSum(history, idx \ {i})

\* C26: over any sequence of gv_gate runs sharing one run log, the baseline
\* of a run is the mean of the scores of the at most history_window most
\* recent earlier records with threshold_pass true, and is absent when
\* there is none; a run that fails the threshold leaves a record with
\* threshold_pass false, which no later baseline counts.
C26_RunHistoryBaseline ==
    /\ []((gv.ran /\ gv.score.kind # "none") =>
            LET recent == Recent(gv.history,
                                 HistoryWindow(gv.history_window))
            IN  /\ gv.history = SubSeq(run_log, 1, Len(gv.history))
                /\ IF recent = {} THEN gv.baseline.kind = "none"
                   ELSE /\ gv.baseline.kind = "num"
                        /\ gv.baseline.n = Cardinality(recent)
                        /\ gv.baseline.sum = ScoreSum(gv.history, recent))
    /\ [][run_log' # run_log =>
             /\ run_log' = Append(run_log, run_log'[Len(run_log')])
             /\ run_log'[Len(run_log')].threshold_pass
                    = GE(gv'.score, gv'.threshold)
             /\ run_log'[Len(run_log')].score = Round6(gv'.score)]_vars

\* A run whose history holds a passing record, then a failed one, then a
\* passing one with another score, under a window of 2: the baseline is
\* the mean of the two passing scores
C26_Witness ==
    /\ gv.ran /\ gv.score.kind = "num" /\ Len(gv.history) = 3
    /\ HistoryWindow(gv.history_window) = 2
    /\ Passing(gv.history) = {1, 3}
    /\ gv.history[1].score # gv.history[3].score
    /\ gv.baseline.n = 2

\* C27: along any trajectory, from any state and under any actions, the
\* orchard flag o never goes from 0 to 1 and the bridge flag b never goes
\* from 1 to 0; once a step has taken BURN, o = 0 in every later state.
C27_IrreversibleTrajectory ==
    /\ [](ep.burned => ep.s[3] = 0)
    /\ [][/\ ep'.s[3] <= ep.s[3]
          /\ ep'.s[2] >= ep.s[2]
          /\ ep.burned => ep'.burned]_vars

\* After a BURN of the live orchard the trajectory went on with another
\* action, and the orchard is still gone
C27_Witness ==
    /\ ep.burned /\ ep.a \in {REPAIR, HARVEST, WAIT}
    /\ ep.at[3] = 0 /\ ep.s[3] = 0
    /\ ep.s[1] = ep.at[1] + 1
    /\ ep.omega = 1

\* C28: along any trajectory the sum of delta_omega over its steps is at
\* most 1, so for every lam >= 0 the undiscounted penalty lam * delta_omega
\* summed over the trajectory is at most lam, however often BURN is taken.
C28_PenaltyAtMostOnce ==
    /\ ep.omega \in {0, 1}
    /\ \A l \in Lams : l >= 0 => l * ep.omega <= l

\* BURN taken twice along one trajectory, the penalty charged once
C28_Witness ==
    /\ ep.burned /\ ep.a = BURN /\ ep.at[3] = 0
    /\ ep.s[1] = ep.at[1] + 1
    /\ ep.omega = 1

\* C29: of two solves of one environment with one gamma and any two
\* lam >= 0, every state with o = 0 has the same Value entry and the same
\* Policy entry.
C29_DestroyedIgnoresLam ==
    \A i, j \in 1..2 :
        (/\ Returned(i) /\ Returned(j)
         /\ gamma[i] = gamma[j] /\ lam[i] >= 0 /\ lam[j] >= 0) =>
            \A s \in StateSpace(env) :
                s[3] = 0 =>
                    /\ V[i][s] = V[j][s]
                    /\ s \in NonTerminal(env) => pi[i][s] = pi[j][s]

\* Two solves with lam 0.0 and 3.0 that differ at the start state, where
\* the orchard is alive, and agree where it is gone
C29_Witness ==
    /\ Returned(1) /\ Returned(2)
    /\ gamma[1] = gamma[2] /\ lam[1] = 0 /\ lam[2] = 15
    /\ env.T >= 2
    /\ V[1][start_state] # V[2][start_state]
    /\ V[1][<<0, 0, 0>>] = V[2][<<0, 0, 0>>]
    /\ pi[1][<<0, 0, 0>>] = pi[2][<<0, 0, 0>>]

\* The states met by following the Policy table of invocation i from s up
\* to a terminal state, s included
RECURSIVE Visited(_, _)
Visited(i, s) ==
    IF is_terminal(env, s) \/ s \notin DOMAIN pi[i] THEN {s}
    ELSE {s} \cup Visited(i, env_transition(env, s, pi[i][s]))

\* The discounted sum of reward - lam*delta_omega collected by following the
\* Policy table of invocation i from s up to a terminal state, as a
\* numerator of the layer of s
RECURSIVE PolicyReturn(_, _)
PolicyReturn(i, s) ==
    IF is_terminal(env, s) THEN Zero
    ELSE Add(MulPow(FromInt(Utility(env, lam[i], s, pi[i][s])),
                    gamma[i].d, env.T - s[1]),
             MulSmall(PolicyReturn(i, env_transition(env, s, pi[i][s])),
                      gamma[i].n))

\* C30: in the returned tables, every state met by following the Policy
\* from a non-terminal state s up to a terminal state has a Policy entry,
\* and V(s) is the discounted sum of reward - lam*delta_omega collected on
\* the way.
C30_PolicyValueConsistent ==
    Returned(1) =>
        \A s \in NonTerminal(env) :
            /\ \A v \in Visited(1, s) :
                   is_terminal(env, v) \/ v \in DOMAIN pi[1]
            /\ V[1][s] = PolicyReturn(1, s)

\* A returned solve of a two-layer environment whose Policy takes two
\* different actions along the trajectory from the start state
C30_Witness ==
    /\ Returned(1) /\ env.T >= 2 /\ ValidParams(1)
    /\ Cardinality(Visited(1, start_state)) = env.T + 1
    /\ pi[1][start_state]
           # pi[1][env_transition(env, start_state, pi[1][start_state])]
    /\ V[1][start_state] = PolicyReturn(1, start_state)
    /\ V[1][start_state] # Zero

====
